---- MODULE Spec2Model ----
(***************************************************************************)
(* Recursive ray tracer (RayTracer.cpp) and its render scheduler           *)
(* (TraceUI.cpp, which this repository keeps in the second half of         *)
(* src/src/RayTracer.h).                                                   *)
(*                                                                         *)
(* Two state machines share this module:                                   *)
(*   Spec    one tracePixel call on one thread: trace, traceRay,           *)
(*           traceReflection, traceRefraction as an explicit call stack.   *)
(*   SpecUI  the FLTK main thread (cb_render, load_scene, cb_stop, ...)    *)
(*           and the RenderWorker threads a render pass starts.            *)
(*                                                                         *)
(* Reals are fixed-point integers: a weight or colour channel v stands for *)
(* v / Unit, and a product of two of them is (a * b) \div Unit.            *)
(***************************************************************************)
EXTENDS Integers, Sequences, FiniteSets, TLC

\* ------------------------------------------------------------- bounds
\* The fixed-point value of 1.0.
Unit == 4
\* Largest position of the depth slider that is explored (the slider allows 10).
MaxDepth == 2
\* Largest glossy sample count explored (the slider allows 100).
MaxSample == 2
\* Largest supersampling factor explored (the slider allows 16).
MaxSuper == 2
\* The incidence cosine |N.(-d)| takes the values 0/CosSteps .. CosSteps/CosSteps.
CosSteps == 2
\* The settings explored are those under which one pixel needs at most this
\* many traceRay calls.
MaxPixelCalls == 28

\* Largest position of the size slider that is explored, in pixels (the slider
\* runs from 64 to 512).
MaxSize == 2
\* Largest position of the thread slider that is explored (the slider allows 8).
MaxThread == 2
\* Deepest nesting of cb_render activations explored (a Render click handled
\* by the event polling of a running cb_render).
MaxNest == 2
\* Most pixels, summed over the cb_render activations on the stack, in the
\* runs explored.
MaxPixels == 6
\* Most callbacks the event loop dispatches in one run that is explored.
MaxEvents == 4
\* The Fresnel blend strength takes the values 0/RatioSteps .. RatioSteps/RatioSteps
\* (the slider has 100 steps).
RatioSteps == 2

\* ------------------------------------------------------------- vectors
Chan == 1..3

Zero3 == <<0, 0, 0>>

\* vec3f::iszero (used at RayTracer.cpp:113 and :163)
iszero(v) == \A c \in Chan : v[c] = 0

\* prod(a, b): the component-wise product (RayTracer.cpp:73, :133, :205)
prod(a, b) == [c \in Chan |-> (a[c] * b[c]) \div Unit]

\* vec3f operator+ (RayTracer.cpp:97, :153)
Add3(a, b) == [c \in Chan |-> a[c] + b[c]]

\* vec3f operator/ by a scalar (RayTracer.cpp:155, :384)
Div3(a, n) == [c \in Chan |-> a[c] \div n]

\* vec3f::clamp: each channel brought into [0, 1]
clamp(v) == [c \in Chan |-> IF v[c] < 0 THEN 0 ELSE IF v[c] > Unit THEN Unit ELSE v[c]]

\* ------------------------------------------------------------- the scene
\* The Material object that trace() builds on its own stack: no intersection
\* can return its address.
Air == 0

\* The materials of the loaded scene, by identity: a mirror, a glass that also
\* reflects in one channel only, a diffuse opaque surface, and water.  index
\* is the refractive index times 10.
SceneMaterials == {1, 2, 3, 4}

kr(m) == CASE m = 1 -> <<Unit, Unit, Unit>>
           [] m = 2 -> <<Unit \div 2, 0, 0>>
           [] OTHER -> Zero3

kt(m) == CASE m = 2 -> <<Unit, Unit, Unit>>
           [] m = 4 -> <<Unit \div 2, Unit \div 2, Unit>>
           [] OTHER -> Zero3

index(m) == CASE m = 2 -> 15
              [] m = 4 -> 13
              [] OTHER -> 10

\* What Material::shade can return for a hit on material m.  The mirror and
\* the glass have no diffuse or specular term of their own (black); the
\* diffuse surface is black in shadow and otherwise a colour that is saturated
\* in the first channel.
ShadeValues(m) == IF m = 3 THEN {Zero3, <<Unit, Unit \div 2, 0>>} ELSE {Zero3}

\* The positions of the intensity-threshold slider that are explored:
\* 0 (never prunes a non-zero weight), 0.5 and 1.0.
ThresholdValues == {0, Unit \div 2, Unit}

VARIABLES
    \* --- configuration (TraceUI members read through traceUI->...)
    m_nDepth, m_glossy_reflection_sample, m_intensity_threshold,
    m_is_enable_reflection, m_is_enable_refraction, m_super_sampling,
    \* --- one tracePixel call
    pixpc,      \* "idle", "sampling" (inside the trace calls), "written"
    col,        \* tracePixel's local col
    nsamples,   \* trace calls finished for this pixel
    pixel,      \* the three (int)(255.0 * col[c]) values tracePixel computes
    pixelByte,  \* the three unsigned chars stored in the buffer
    cs,         \* the call stack of traceRay activations, outermost first
    ncalls,     \* traceRay calls made since the current trace() began
    lastRaw,    \* what traceRay returned to the trace() call that just returned
    lastTrace,  \* what that trace() call returned
    \* --- RayTracer members
    scene,          \* NULL or the loaded scene
    m_bSceneLoaded,
    buffer_width, buffer_height,
    \* --- TraceUI.cpp
    done,           \* the file-scope stop flag
    m_nSize, m_thread,
    passes,         \* the cb_render activations on the main thread's stack,
                    \* outermost first, each with the workers it started
    nevents,        \* callbacks dispatched so far
    \* --- the Fresnel blend of one traceRay (RayTracer.cpp:85-96)
    fpc,        \* "off", "hit" (before line 85), "coeff" (GetFresnelCoeff has
                \* returned), "blended", "skipped"
    fin,        \* the hit: material_stack, m, the cosine step c, the blend
                \* ratio, and reflection and refraction as traced
    fout        \* GetFresnelCoeff's ni, nt and result, and the blended terms

cfgVars == <<m_nDepth, m_glossy_reflection_sample, m_intensity_threshold,
             m_is_enable_reflection, m_is_enable_refraction, m_super_sampling>>
pixVars == <<pixpc, col, nsamples, pixel, pixelByte, lastRaw, lastTrace>>
traceVars == <<cfgVars, pixVars, cs, ncalls>>
uiVars == <<scene, m_bSceneLoaded, buffer_width, buffer_height, done,
            m_nSize, m_thread, passes, nevents>>
fresVars == <<fpc, fin, fout>>
vars == <<traceVars, uiVars, fresVars>>

\* The Fresnel blend is not running
NoFresnel == <<>>

\* ------------------------------------------------------------- traceRay
\* A traceRay activation: its TraceParam (depth, thresh, material_stack; dir
\* names how the ray *param.r was built), its position pc, and its locals.
\* material_stack is a deque: its front is the head of the sequence.
\* queried, shaded, nkids and ksum record what the activation has done so far:
\* the intersection query, the shade call, the child traceRay calls it made
\* and the sum of what the children of its reflection branch returned.
\* ni and nt are the locals of its traceRefraction call once that call has
\* gone on to trace the refracted ray (0 before).
Frame(depth, thresh, material_stack, dir) ==
    [depth |-> depth, thresh |-> thresh, material_stack |-> material_stack,
     dir |-> dir, pc |-> "enter", m |-> Air, leaving |-> FALSE,
     intensity |-> Zero3, reflection |-> Zero3, acc |-> Zero3, i |-> 0,
     queried |-> FALSE, shaded |-> FALSE, nkids |-> 0, ksum |-> Zero3,
     ni |-> 0, nt |-> 0, ret |-> Zero3]

Top == cs[Len(cs)]

SetTop(f) == [cs EXCEPT ![Len(cs)] = f]

Push(f, child) == Append(SetTop(f), child)

\* Cutoff with the three tests joined by || instead of &&
CutoffAnyChannel(thresh) == \E c \in Chan : thresh[c] <= m_intensity_threshold

\* RayTracer.cpp:45-50: the weight is at or below the threshold on every channel
Cutoff(thresh) == \A c \in Chan : thresh[c] <= m_intensity_threshold

\* RayTracer.cpp:217-220
IsLeavingObject(material_stack, m) == m = Head(material_stack)

\* ChildDepth without the increment
ChildDepthSame(depth) == depth

\* RayTracer.cpp:134, :151, :206: next_param.depth
ChildDepth(depth) == depth + 1

\* ReflectionSkips with > in place of >=
ReflectionSkipsOffByOne(f) == iszero(kr(f.m)) \/ f.depth > m_nDepth

\* RayTracer.cpp:113: traceReflection returns vec3f() at once
ReflectionSkips(f) == iszero(kr(f.m)) \/ f.depth >= m_nDepth

\* RayTracer.cpp:163: traceRefraction takes its else branch
RefractionSkips(f) == iszero(kt(f.m)) \/ ~(f.depth < m_nDepth)

\* RayTracer.cpp:133, :150: next_param.thresh of a reflected ray
ReflectionWeight(f) == prod(f.thresh, kr(f.m))

\* RayTracer.cpp:205: next_param.thresh of the refracted ray
RefractionWeight(f) == prod(f.thresh, kt(f.m))

\* RayTracer.cpp:135, :152: next_param.material_stack of a reflected ray
ReflectionStack(f) == f.material_stack

\* GlossyMean without the division
GlossyMeanUndivided(acc, sample) == acc

\* RayTracer.cpp:155: the mean of the glossy samples
GlossyMean(acc, sample) == Div3(acc, sample)

\* RayTracer.cpp:172: mat_stack[1].  Reading it from a deque of fewer than two
\* entries is undefined: any material may come back.
Second(mat_stack) ==
    IF Len(mat_stack) >= 2 THEN {mat_stack[2]} ELSE SceneMaterials \cup {Air}

\* RefractionStack popping whether or not the ray is leaving
RefractionStackAlwaysPop(f) == Tail(f.material_stack)

\* RefractionStack with pop_back in place of pop_front
RefractionStackPopBack(f) ==
    IF IsLeavingObject(f.material_stack, f.m)
    THEN SubSeq(f.material_stack, 1, Len(f.material_stack) - 1)
    ELSE <<f.m>> \o f.material_stack

\* RayTracer.cpp:169-183: the stack the refracted ray carries
RefractionStack(f) ==
    IF IsLeavingObject(f.material_stack, f.m)
    THEN Tail(f.material_stack)
    ELSE <<f.m>> \o f.material_stack

\* RayTracer.cpp:173, :180: ni
Ni(f) == IF IsLeavingObject(f.material_stack, f.m)
         THEN index(f.m) ELSE index(Head(f.material_stack))

\* Nt with the index of the medium that is left when leaving
NtOfLeftMedium(f, outside) == index(f.m)

\* RayTracer.cpp:174, :181: nt, with outside = mat_stack[1]
Nt(f, outside) == IF IsLeavingObject(f.material_stack, f.m)
                  THEN index(outside) ELSE index(f.m)

\* RayTracer.cpp:184-190: root < 0, for nr = ni / nt and dot_rn = c / CosSteps,
\* multiplied through by (nt * CosSteps)^2
TotalInternalReflection(ni, nt, c) ==
    nt * nt * CosSteps * CosSteps - ni * ni * (CosSteps * CosSteps - c * c) < 0

\* TraceResult without the clamp
TraceResultUnclamped(v) == v

\* RayTracer.cpp:38: what trace returns for traceRay's result
TraceResult(v) == clamp(v)

\* RayTracer.cpp:363, :370-373: the number of trace calls for one pixel
TracesPerPixel ==
    IF m_super_sampling > 0 THEN m_super_sampling * m_super_sampling ELSE 1

\* The traceRay calls one trace() can make when the depth limit is maxdepth and
\* every activation makes all its calls: one per glossy sample (one when the
\* sample count is 0) and one for the refracted ray.
RECURSIVE CallBound(_, _, _)
CallBound(depth, maxdepth, sample) ==
    IF depth >= maxdepth
    THEN 1
    ELSE 1 + ((IF sample = 0 THEN 1 ELSE sample) + 1)
                 * CallBound(depth + 1, maxdepth, sample)

\* RayTracer.cpp:384: col after the sampling loop
PixelColour(c) ==
    IF m_super_sampling > 0 THEN Div3(c, m_super_sampling * m_super_sampling) ELSE c

\* RayTracer.cpp:393-395: (int)(255.0 * col[c])
PixelInt(c) == [k \in Chan |-> (255 * c[k]) \div Unit]

\* RayTracer.cpp:393-395: the conversion of that int to unsigned char
ToByte(v) == [k \in Chan |-> v[k] % 256]

\* ------------------------------------------------------------- tracePixel
\* RayTracer.cpp:353-361: tracePixel begins (the scene is loaded)
TracePixel ==
    /\ pixpc = "idle"
    /\ pixpc' = "sampling"
    /\ col' = Zero3
    /\ nsamples' = 0
    /\ UNCHANGED <<fresVars, uiVars, cfgVars, pixel, pixelByte, lastRaw, lastTrace, cs, ncalls>>

\* RayTracer.cpp:25-38: trace builds the TraceParam of the camera ray (weight
\* (1,1,1), depth 0, the air material alone on the stack) and calls traceRay
Trace ==
    /\ pixpc = "sampling"
    /\ cs = <<>>
    /\ nsamples < TracesPerPixel
    /\ cs' = <<Frame(0, <<Unit, Unit, Unit>>, <<Air>>, "camera")>>
    /\ ncalls' = 1
    /\ lastRaw' = Zero3
    /\ lastTrace' = Zero3
    /\ UNCHANGED <<fresVars, uiVars, cfgVars, pixpc, col, nsamples, pixel, pixelByte>>

\* RayTracer.cpp:45-50: the weight is negligible, traceRay returns vec3f()
TraceRayCutoff ==
    /\ cs # <<>>
    /\ Top.pc = "enter"
    /\ Cutoff(Top.thresh)
    /\ cs' = SetTop([Top EXCEPT !.pc = "return", !.ret = Zero3])
    /\ UNCHANGED <<fresVars, uiVars, cfgVars, pixVars, ncalls>>

\* RayTracer.cpp:53, :99-106: scene->intersect finds nothing
TraceRayMiss ==
    /\ cs # <<>>
    /\ Top.pc = "enter"
    /\ ~Cutoff(Top.thresh)
    /\ cs' = SetTop([Top EXCEPT !.pc = "return", !.ret = Zero3, !.queried = TRUE])
    /\ UNCHANGED <<fresVars, uiVars, cfgVars, pixVars, ncalls>>

\* RayTracer.cpp:53-73: scene->intersect finds a surface of material m, whose
\* shade call returns s
TraceRayHit ==
    /\ cs # <<>>
    /\ Top.pc = "enter"
    /\ ~Cutoff(Top.thresh)
    /\ \E m \in SceneMaterials : \E s \in ShadeValues(m) :
          cs' = SetTop([Top EXCEPT !.pc = "reflection", !.queried = TRUE,
                                   !.shaded = TRUE, !.m = m,
                                   !.leaving = IsLeavingObject(Top.material_stack, m),
                                   !.intensity = prod(s, Top.thresh)])
    /\ UNCHANGED <<fresVars, uiVars, cfgVars, pixVars, ncalls>>

\* RayTracer.cpp:77-78, :113-116: reflection is switched off, or
\* traceReflection returns zero without tracing
TraceReflectionSkip ==
    /\ cs # <<>>
    /\ Top.pc = "reflection"
    /\ Top.i = 0
    /\ ~m_is_enable_reflection \/ ReflectionSkips(Top)
    /\ cs' = SetTop([Top EXCEPT !.pc = "refraction", !.reflection = Zero3])
    /\ UNCHANGED <<fresVars, uiVars, cfgVars, pixVars, ncalls>>

\* RayTracer.cpp:126-136 (one ray along the mirror direction) and :142-153
\* (iteration i of the glossy loop): traceReflection calls traceRay
TraceReflectionCall ==
    /\ cs # <<>>
    /\ Top.pc = "reflection"
    /\ m_is_enable_reflection
    /\ ~ReflectionSkips(Top)
    /\ m_glossy_reflection_sample = 0 \/ Top.i < m_glossy_reflection_sample
    /\ cs' = Push([Top EXCEPT !.pc = "reflWait", !.nkids = @ + 1],
                  Frame(ChildDepth(Top.depth), ReflectionWeight(Top),
                        ReflectionStack(Top),
                        IF m_glossy_reflection_sample = 0 THEN "mirror" ELSE "cone"))
    /\ ncalls' = ncalls + 1
    /\ UNCHANGED <<fresVars, uiVars, cfgVars, pixVars>>

\* What traceReflection does with the value v its child returned:
\* RayTracer.cpp:136 returns it; :153-155 adds it to intensity, and after the
\* last sample returns intensity / sample.
AfterReflectionChild(p, v) ==
    IF m_glossy_reflection_sample = 0
    THEN [p EXCEPT !.pc = "refraction", !.reflection = v, !.ksum = Add3(@, v)]
    ELSE IF p.i + 1 < m_glossy_reflection_sample
         THEN [p EXCEPT !.pc = "reflection", !.acc = Add3(@, v), !.i = @ + 1,
                        !.ksum = Add3(@, v)]
         ELSE [p EXCEPT !.pc = "refraction", !.acc = Add3(@, v), !.i = @ + 1,
                        !.ksum = Add3(@, v),
                        !.reflection =
                            GlossyMean(Add3(p.acc, v), m_glossy_reflection_sample)]

\* A traceRay called by traceReflection returns
ReturnToReflection ==
    /\ Len(cs) >= 2
    /\ Top.pc = "return"
    /\ cs[Len(cs) - 1].pc = "reflWait"
    /\ cs' = [SubSeq(cs, 1, Len(cs) - 1) EXCEPT
                 ![Len(cs) - 1] = AfterReflectionChild(cs[Len(cs) - 1], Top.ret)]
    /\ UNCHANGED <<fresVars, uiVars, cfgVars, pixVars, ncalls>>

\* RayTracer.cpp:97: what traceRay returns after a hit
Combine(f, refraction) == Add3(Add3(f.intensity, f.reflection), refraction)

\* traceRay at its return statement, with the value of its refraction branch
Returning(f, refraction) ==
    [f EXCEPT !.pc = "return", !.ret = Combine(f, refraction)]

\* RayTracer.cpp:82-83, :211-214: refraction is switched off, or
\* traceRefraction returns zero without tracing; traceRay returns
TraceRefractionSkip ==
    /\ cs # <<>>
    /\ Top.pc = "refraction"
    /\ ~m_is_enable_refraction \/ RefractionSkips(Top)
    /\ cs' = SetTop(Returning(Top, Zero3))
    /\ UNCHANGED <<fresVars, uiVars, cfgVars, pixVars, ncalls>>

\* RayTracer.cpp:165-194: total internal reflection, traceRefraction returns
\* zero; traceRay returns
TraceRefractionTIR ==
    /\ cs # <<>>
    /\ Top.pc = "refraction"
    /\ m_is_enable_refraction
    /\ ~RefractionSkips(Top)
    /\ \E c \in 0..CosSteps, outside \in Second(Top.material_stack) :
          TotalInternalReflection(Ni(Top), Nt(Top, outside), c)
    /\ cs' = SetTop(Returning(Top, Zero3))
    /\ UNCHANGED <<fresVars, uiVars, cfgVars, pixVars, ncalls>>

\* RayTracer.cpp:165-208: traceRefraction pops or pushes its copy of the stack
\* and calls traceRay for the refracted ray
TraceRefractionCall ==
    /\ cs # <<>>
    /\ Top.pc = "refraction"
    /\ m_is_enable_refraction
    /\ ~RefractionSkips(Top)
    /\ \E c \in 0..CosSteps, outside \in Second(Top.material_stack) :
          /\ ~TotalInternalReflection(Ni(Top), Nt(Top, outside), c)
          /\ cs' = Push([Top EXCEPT !.pc = "refrWait", !.nkids = @ + 1,
                                    !.ni = Ni(Top), !.nt = Nt(Top, outside)],
                        Frame(ChildDepth(Top.depth), RefractionWeight(Top),
                              RefractionStack(Top), "refract"))
    /\ ncalls' = ncalls + 1
    /\ UNCHANGED <<fresVars, uiVars, cfgVars, pixVars>>

\* The traceRay called by traceRefraction returns, and the caller returns
\* intensity + reflection + refraction (RayTracer.cpp:208, :97)
ReturnToRefraction ==
    /\ Len(cs) >= 2
    /\ Top.pc = "return"
    /\ cs[Len(cs) - 1].pc = "refrWait"
    /\ cs' = [SubSeq(cs, 1, Len(cs) - 1) EXCEPT
                 ![Len(cs) - 1] = Returning(cs[Len(cs) - 1], Top.ret)]
    /\ UNCHANGED <<fresVars, uiVars, cfgVars, pixVars, ncalls>>

\* RayTracer.cpp:38 and :381 / :388: the outermost traceRay returns, trace
\* returns its clamped value and tracePixel adds it to col
ReturnToTrace ==
    /\ Len(cs) = 1
    /\ Top.pc = "return"
    /\ cs' = <<>>
    /\ lastRaw' = Top.ret
    /\ lastTrace' = TraceResult(Top.ret)
    /\ col' = Add3(col, TraceResult(Top.ret))
    /\ nsamples' = nsamples + 1
    /\ UNCHANGED <<fresVars, uiVars, cfgVars, pixpc, pixel, pixelByte, ncalls>>

\* RayTracer.cpp:384-395: the samples are averaged and the pixel is stored
WritePixel ==
    /\ pixpc = "sampling"
    /\ cs = <<>>
    /\ nsamples = TracesPerPixel
    /\ col' = PixelColour(col)
    /\ pixel' = PixelInt(PixelColour(col))
    /\ pixelByte' = ToByte(PixelInt(PixelColour(col)))
    /\ pixpc' = "written"
    /\ UNCHANGED <<fresVars, uiVars, cfgVars, nsamples, lastRaw, lastTrace, cs, ncalls>>

\* RenderWorker's loop goes on to the next pixel (RayTracer.h:246-252), for
\* which tracePixel starts from fresh locals; pixel and pixelByte then stand
\* for the bytes of that next pixel, cleared by traceSetup's memset.
NextPixel ==
    /\ pixpc = "written"
    /\ pixpc' = "idle"
    /\ col' = Zero3
    /\ nsamples' = 0
    /\ pixel' = Zero3
    /\ pixelByte' = Zero3
    /\ lastRaw' = Zero3
    /\ lastTrace' = Zero3
    /\ ncalls' = 0
    /\ UNCHANGED <<fresVars, uiVars, cfgVars, cs>>

\* TraceUI::TraceUI and the slider and switch callbacks (RayTracer.h:166-221):
\* the settings in force for the pixel that is traced
TraceInit ==
    /\ m_nDepth \in 0..MaxDepth
    /\ m_glossy_reflection_sample \in 0..MaxSample
    /\ m_intensity_threshold \in ThresholdValues
    /\ m_is_enable_reflection \in BOOLEAN
    /\ m_is_enable_refraction \in BOOLEAN
    /\ m_super_sampling \in 0..MaxSuper
    /\ CallBound(0, m_nDepth, m_glossy_reflection_sample) * TracesPerPixel
           <= MaxPixelCalls
    /\ pixpc = "idle"
    /\ col = Zero3
    /\ nsamples = 0
    /\ pixel = Zero3
    /\ pixelByte = Zero3
    /\ lastRaw = Zero3
    /\ lastTrace = Zero3
    /\ cs = <<>>
    /\ ncalls = 0
    \* a scene is loaded and a buffer set up
    /\ scene = 1
    /\ m_bSceneLoaded = TRUE
    /\ buffer_width = MaxSize
    /\ buffer_height = MaxSize
    /\ done = FALSE
    /\ m_nSize = MaxSize
    /\ m_thread = 1
    /\ passes = <<>>
    /\ nevents = 0
    /\ fpc = "off"
    /\ fin = NoFresnel
    /\ fout = NoFresnel

TraceNext ==
    \/ TracePixel
    \/ Trace
    \/ TraceRayCutoff
    \/ TraceRayMiss
    \/ TraceRayHit
    \/ TraceReflectionSkip
    \/ TraceReflectionCall
    \/ ReturnToReflection
    \/ TraceRefractionSkip
    \/ TraceRefractionTIR
    \/ TraceRefractionCall
    \/ ReturnToRefraction
    \/ ReturnToTrace
    \/ WritePixel
    \/ NextPixel

Spec == TraceInit /\ [][TraceNext]_vars

\* ------------------------------------------------------------- Fresnel
\* A coefficient is a fraction num/den, or NaN.
Fraction(num, den) == [nan |-> FALSE, num |-> num, den |-> den]

NaN == [nan |-> TRUE, num |-> 0, den |-> 1]

\* RayTracer.cpp:226-235: ni as GetFresnelCoeff selects it
FresnelNi(material_stack, m) ==
    IF IsLeavingObject(material_stack, m)
    THEN index(m)
    ELSE index(Head(material_stack))

\* RayTracer.cpp:226-235: nt as GetFresnelCoeff selects it
FresnelNt(material_stack, m) ==
    IF IsLeavingObject(material_stack, m)
    THEN index(Head(material_stack))
    ELSE index(m)

Pow5(x) == x * x * x * x * x

\* RayTracer.cpp:236-237, :242, :256: r0 + (1 - r0) * pow(1 - x, 5) for
\* r0 = ((ni - nt) / (ni + nt))^2 and x = xn / xd, as an exact fraction
Schlick(ni, nt, xn, xd) ==
    LET r0n == (ni - nt) * (ni - nt)
        r0d == (ni + nt) * (ni + nt)
    IN Fraction(r0n * Pow5(xd) + (r0d - r0n) * Pow5(xd - xn), r0d * Pow5(xd))

SchlickDirectAlways(ni, nt) == TRUE

\* RayTracer.cpp:240: the branch that uses the incidence cosine
SchlickDirect(ni, nt) == ni <= nt

\* RayTracer.cpp:246-248: root < 0, for nr = ni / nt and dot_rn = c / CosSteps,
\* multiplied through by (nt * CosSteps)^2
FresnelTIR(ni, nt, c) ==
    nt * nt * CosSteps * CosSteps - ni * ni * (CosSteps * CosSteps - c * c) < 0

\* RayTracer.cpp:255: the argument 1 - (ni / nt) of sqrt, multiplied by nt
SqrtArgument(ni, nt) == nt - ni

\* sqrt of a / b in CosSteps-ths, rounded down (a >= 0, b > 0)
Sqrt(a, b) ==
    CHOOSE k \in 0..(CosSteps * (a + b)) :
        /\ k * k * b <= a * CosSteps * CosSteps
        /\ (k + 1) * (k + 1) * b > a * CosSteps * CosSteps

\* RayTracer.cpp:222-259.  sqrt of a negative number is NaN, and NaN goes
\* through pow, the product and the sum.
GetFresnelCoeff(material_stack, m, c) ==
    LET ni == FresnelNi(material_stack, m)
        nt == FresnelNt(material_stack, m)
    IN IF SchlickDirect(ni, nt)
       THEN Schlick(ni, nt, c, CosSteps)
       ELSE IF FresnelTIR(ni, nt, c)
            THEN Fraction(1, 1)
            ELSE IF SqrtArgument(ni, nt) < 0
                 THEN NaN
                 ELSE Schlick(ni, nt, Sqrt(SqrtArgument(ni, nt), nt), CosSteps)

\* RayTracer.cpp:86-87: not both media have index 1
FresnelApplies(material_stack, m) ==
    index(Head(material_stack)) # 10 \/ index(m) # 10

\* RayTracer.cpp:92-95: ratio * k * v + (1 - ratio) * v for the fraction k and
\* ratio = r / RatioSteps; NaN when k is NaN
Blend(v, r, k) ==
    IF k.nan
    THEN [nan |-> TRUE, v |-> Zero3]
    ELSE [nan |-> FALSE,
          v |-> [ch \in Chan |-> (r * k.num * v[ch]) \div (RatioSteps * k.den)
                                 + ((RatioSteps - r) * v[ch]) \div RatioSteps]]

\* 1 - fresnel_coeff (RayTracer.cpp:94)
Complement(k) ==
    IF k.nan THEN k ELSE Fraction(k.den - k.num, k.den)

\* The material stacks a path through the glass and the water can carry
FresnelStacks ==
    {<<Air>>, <<2, Air>>, <<4, Air>>, <<4, 2, Air>>, <<2, 4, Air>>}

\* The values of reflection and refraction before the blend
FresnelColours == {<<Unit, Unit \div 2, 0>>, <<2 * Unit, Unit, Unit>>}

\* RayTracer.cpp:85-87: the test fails, reflection and refraction stay
FresnelSkip ==
    /\ fpc = "hit"
    /\ ~FresnelApplies(fin.material_stack, fin.m)
    /\ fpc' = "skipped"
    /\ fout' = [ni |-> 0, nt |-> 0, coeff |-> Fraction(0, 1),
                reflection |-> [nan |-> FALSE, v |-> fin.reflection],
                refraction |-> [nan |-> FALSE, v |-> fin.refraction]]
    /\ UNCHANGED <<traceVars, uiVars, fin>>

\* RayTracer.cpp:85-89: GetFresnelCoeff is called
FresnelCoeff ==
    /\ fpc = "hit"
    /\ FresnelApplies(fin.material_stack, fin.m)
    /\ fpc' = "coeff"
    /\ fout' = [ni |-> FresnelNi(fin.material_stack, fin.m),
                nt |-> FresnelNt(fin.material_stack, fin.m),
                coeff |-> GetFresnelCoeff(fin.material_stack, fin.m, fin.c),
                reflection |-> [nan |-> FALSE, v |-> fin.reflection],
                refraction |-> [nan |-> FALSE, v |-> fin.refraction]]
    /\ UNCHANGED <<traceVars, uiVars, fin>>

\* RayTracer.cpp:90-95: reflection and refraction are blended
FresnelBlend ==
    /\ fpc = "coeff"
    /\ fpc' = "blended"
    /\ fout' = [fout EXCEPT
                   !.reflection = Blend(fin.reflection, fin.ratio, fout.coeff),
                   !.refraction = Blend(fin.refraction, fin.ratio,
                                        Complement(fout.coeff))]
    /\ UNCHANGED <<traceVars, uiVars, fin>>

\* A traceRay with Fresnel enabled has traced its reflection and refraction
\* branches after a hit on material m (RayTracer.cpp:53-83)
FresnelInit ==
    /\ fpc = "hit"
    /\ fin \in [material_stack : FresnelStacks, m : SceneMaterials,
                c : 0..CosSteps, ratio : 0..RatioSteps,
                reflection : FresnelColours, refraction : FresnelColours]
    /\ fout = NoFresnel
    /\ m_nDepth = MaxDepth
    /\ m_glossy_reflection_sample = 0
    /\ m_intensity_threshold = 0
    /\ m_is_enable_reflection = TRUE
    /\ m_is_enable_refraction = TRUE
    /\ m_super_sampling = 0
    /\ pixpc = "sampling"
    /\ col = Zero3
    /\ nsamples = 0
    /\ pixel = Zero3
    /\ pixelByte = Zero3
    /\ lastRaw = Zero3
    /\ lastTrace = Zero3
    /\ cs = <<>>
    /\ ncalls = 0
    /\ scene = 1
    /\ m_bSceneLoaded = TRUE
    /\ buffer_width = MaxSize
    /\ buffer_height = MaxSize
    /\ done = FALSE
    /\ m_nSize = MaxSize
    /\ m_thread = 1
    /\ passes = <<>>
    /\ nevents = 0

FresnelNext ==
    \/ FresnelSkip
    \/ FresnelCoeff
    \/ FresnelBlend

SpecFresnel == FresnelInit /\ [][FresnelNext]_vars

\* ------------------------------------------------------------- the scheduler
NULL == 0

\* The scenes readScene can return, by identity: scene 1 has a camera of
\* aspect ratio 1, scene 2 of aspect ratio 2/3.
Scenes == {1, 2}

AspectNum(s) == IF s = 2 THEN 2 ELSE 1

AspectDen(s) == IF s = 2 THEN 3 ELSE 1

\* RayTracer.cpp:309, :264: the width loadScene and the constructor give the buffer
DefaultWidth == 256

\* RayTracer.h:268 and RayTracer.cpp:310 with RayTracer.cpp:284-287 (aspectRatio
\* is 1 when scene is null): (int)(width / aspectRatio() + 0.5)
Height(width, s) ==
    (2 * width * AspectDen(s) + AspectNum(s)) \div (2 * AspectNum(s))

\* RayTracer.cpp:289-292
sceneLoaded == m_bSceneLoaded

SceneReadyAlways == TRUE

\* RayTracer.cpp:342, :357: the test that lets traceLines and tracePixel go on
SceneReady == scene # NULL

\* RayTracer.cpp:339-351: the pixels traceLines(start, stop) hands to tracePixel
traceLines(start, stop) ==
    IF ~SceneReady
    THEN {}
    ELSE LET last == IF stop > buffer_height THEN buffer_height ELSE stop
         IN {<<i, j>> : i \in 0..(buffer_width - 1), j \in start..(last - 1)}

\* RayTracer.cpp:391: the offset of pixel (i, j) in buffer
PixelOffset(i, j) == (i + j * buffer_width) * 3

\* A bag of writes: (worker, offset) |-> how many times
BagAdd(bag, e) ==
    IF e \in DOMAIN bag
    THEN [bag EXCEPT ![e] = @ + 1]
    ELSE [x \in DOMAIN bag \cup {e} |-> IF x = e THEN 1 ELSE bag[x]]

\* RayTracer.h:288: partition
Partition(height, threads) == height \div threads

\* RayTracer.h:289-295: the arguments of the k-th RenderWorker of 1..threads
WorkerFrom(k, height, threads) == Partition(height, threads) * (k - 1)

WorkerTo(k, height, threads) ==
    IF k < threads THEN Partition(height, threads) * k ELSE height

\* A RenderWorker thread (RayTracer.h:243-253): its arguments, its loop
\* variables and its position: "outer" and "inner" are the two loop tests,
\* "pixel" is inside tracePixel, "exit" is after the loops.
Worker(from_y, to_y, w) ==
    [from_y |-> from_y, to_y |-> to_y, w |-> w, y |-> from_y, x |-> 0, pc |-> "outer"]

\* A cb_render activation (RayTracer.h:255-337): its locals width and height,
\* its position ("check" is the Fl::check of line 284, "loop" the do-while of
\* lines 298-329), its workers, and what is recorded of them: the writes they
\* made and whether one of them left a loop because done was set.
Pass(width, height) ==
    [width |-> width, height |-> height, pc |-> "check", workers |-> <<>>,
     written |-> <<>>, cancelled |-> FALSE]

\* The callbacks below are dispatched by the main thread from Fl::run, or from
\* the Fl::check of the innermost cb_render (RayTracer.h:284, :312): between
\* any two steps of the workers.

\* The pixels of the cb_render activations ps
ActivePixels(ps) ==
    LET Count[n \in 0..Len(ps)] ==
            IF n = 0 THEN 0 ELSE Count[n - 1] + ps[n].width * ps[n].height
    IN Count[Len(ps)]

WorkerRunning ==
    \E p \in 1..Len(passes) :
        \E k \in 1..Len(passes[p].workers) : passes[p].workers[k].pc # "exit"

\* The event loop, or the Fl::check of a cb_render (RayTracer.h:284, :312),
\* calls a callback
Dispatch ==
    /\ nevents < MaxEvents
    /\ nevents' = nevents + 1

\* RayTracer.cpp:294-323 under TraceUI::load_scene (RayTracer.h:105-118),
\* readScene returns scene s: the scene and the buffer are replaced, and
\* load_scene sets done
LoadSceneOk(s) ==
    /\ Dispatch
    /\ scene' = s
    /\ buffer_width' = DefaultWidth
    /\ buffer_height' = Height(DefaultWidth, s)
    /\ m_bSceneLoaded' = TRUE
    /\ done' = TRUE
    /\ UNCHANGED <<fresVars, traceVars, m_nSize, m_thread, passes>>

\* RayTracer.cpp:300-304: readScene throws ParseError, nothing is assigned
LoadSceneParseError ==
    /\ Dispatch
    /\ UNCHANGED <<fresVars, traceVars, scene, m_bSceneLoaded, buffer_width, buffer_height,
                   done, m_nSize, m_thread, passes>>

\* RayTracer.cpp:298, :306-307: readScene returns null
LoadSceneNull ==
    /\ Dispatch
    /\ scene' = NULL
    /\ UNCHANGED <<fresVars, traceVars, m_bSceneLoaded, buffer_width, buffer_height, done,
                   m_nSize, m_thread, passes>>

\* RayTracer.h:339-342 (and cb_exit, :130-150, which sets the flag the same way)
cb_stop ==
    /\ Dispatch
    /\ done' = TRUE
    /\ UNCHANGED <<fresVars, traceVars, scene, m_bSceneLoaded, buffer_width, buffer_height,
                   m_nSize, m_thread, passes>>

\* RayTracer.h:157-164
cb_sizeSlides(v) ==
    /\ Dispatch
    /\ m_nSize' = v
    /\ UNCHANGED <<fresVars, traceVars, scene, m_bSceneLoaded, buffer_width, buffer_height,
                   done, m_thread, passes>>

\* RayTracer.h:208-211
cb_threadSlides(v) ==
    /\ Dispatch
    /\ m_thread' = v
    /\ UNCHANGED <<fresVars, traceVars, scene, m_bSceneLoaded, buffer_width, buffer_height,
                   done, m_nSize, passes>>

\* RayTracer.h:261-285: cb_render up to its first Fl::check.  traceSetup
\* (RayTracer.cpp:325-337) reallocates the buffer when the size differs and
\* clears it; done is reset.
RenderBegin ==
    /\ Dispatch
    /\ Len(passes) < MaxNest
    /\ ActivePixels(passes) + m_nSize * Height(m_nSize, scene) <= MaxPixels
    /\ sceneLoaded
    /\ LET width == m_nSize
           height == Height(m_nSize, scene)
       IN /\ buffer_width' = width
          /\ buffer_height' = height
          /\ passes' = Append(passes, Pass(width, height))
    /\ done' = FALSE
    /\ UNCHANGED <<fresVars, traceVars, scene, m_bSceneLoaded, m_nSize, m_thread>>

\* RayTracer.h:287-295: the workers are started
RenderLaunch ==
    /\ UNCHANGED nevents
    /\ passes # <<>>
    /\ passes[Len(passes)].pc = "check"
    /\ LET P == passes[Len(passes)]
       IN passes' = [passes EXCEPT ![Len(passes)] =
             [P EXCEPT !.pc = "loop",
                       !.workers = [k \in 1..m_thread |->
                           Worker(WorkerFrom(k, P.height, m_thread),
                                  WorkerTo(k, P.height, m_thread), P.width)]]]
    /\ UNCHANGED <<fresVars, traceVars, scene, m_bSceneLoaded, buffer_width, buffer_height,
                   done, m_nSize, m_thread>>

\* RayTracer.h:320-336: every future is ready; done is set and cb_render returns
RenderJoin ==
    /\ UNCHANGED nevents
    /\ passes # <<>>
    /\ passes[Len(passes)].pc = "loop"
    /\ \A k \in 1..Len(passes[Len(passes)].workers) :
          passes[Len(passes)].workers[k].pc = "exit"
    /\ done' = TRUE
    /\ passes' = SubSeq(passes, 1, Len(passes) - 1)
    /\ UNCHANGED <<fresVars, traceVars, scene, m_bSceneLoaded, buffer_width, buffer_height,
                   m_nSize, m_thread>>

SetWorker(p, k, w, cancel) ==
    [passes EXCEPT ![p].workers[k] = w,
                   ![p].cancelled = @ \/ cancel]

\* RayTracer.h:246: y < to_y && !done
OuterContinues(w) == w.y < w.to_y /\ ~done

InnerContinuesIgnoringDone(w) == w.x < w.w

\* RayTracer.h:248: x < w && !done
InnerContinues(w) == w.x < w.w /\ ~done

\* RayTracer.h:246: the test of the outer loop
WorkerOuter(p, k) ==
    LET w == passes[p].workers[k]
    IN /\ UNCHANGED nevents
       /\ w.pc = "outer"
       /\ passes' = IF OuterContinues(w)
                    THEN SetWorker(p, k, [w EXCEPT !.pc = "inner", !.x = 0], FALSE)
                    ELSE SetWorker(p, k, [w EXCEPT !.pc = "exit"], w.y < w.to_y)
       /\ UNCHANGED <<fresVars, traceVars, scene, m_bSceneLoaded, buffer_width, buffer_height,
                      done, m_nSize, m_thread>>

\* RayTracer.h:248-250 and RayTracer.cpp:353-358: the test of the inner loop,
\* and tracePixel's test of scene: tracePixel is entered, or returns at once,
\* or the row ends
WorkerInner(p, k) ==
    LET w == passes[p].workers[k]
    IN /\ UNCHANGED nevents
       /\ w.pc = "inner"
       /\ passes' =
             IF InnerContinues(w)
             THEN IF SceneReady
                  THEN SetWorker(p, k, [w EXCEPT !.pc = "pixel"], FALSE)
                  ELSE SetWorker(p, k, [w EXCEPT !.x = @ + 1], FALSE)
             ELSE SetWorker(p, k, [w EXCEPT !.pc = "outer", !.y = @ + 1], w.x < w.w)
       /\ UNCHANGED <<fresVars, traceVars, scene, m_bSceneLoaded, buffer_width, buffer_height,
                      done, m_nSize, m_thread>>

\* RayTracer.cpp:360-395: tracePixel traces and stores the pixel, and the
\* inner loop increments x
TracePixelEnd(p, k) ==
    LET w == passes[p].workers[k]
    IN /\ UNCHANGED nevents
       /\ w.pc = "pixel"
       /\ passes' = [SetWorker(p, k, [w EXCEPT !.pc = "inner", !.x = @ + 1], FALSE)
                        EXCEPT ![p].written = BagAdd(@, <<k, PixelOffset(w.x, w.y)>>)]
       /\ UNCHANGED <<fresVars, traceVars, scene, m_bSceneLoaded, buffer_width, buffer_height,
                      done, m_nSize, m_thread>>

UIInit ==
    \* RayTracer::RayTracer (RayTracer.cpp:261-268)
    /\ scene = NULL
    /\ m_bSceneLoaded = FALSE
    /\ buffer_width = DefaultWidth
    /\ buffer_height = DefaultWidth
    \* TraceUI.cpp: done is zero-initialised; TraceUI::TraceUI (RayTracer.h:370-387)
    /\ done = FALSE
    /\ m_nSize = MaxSize
    /\ m_thread = 2
    /\ passes = <<>>
    /\ nevents = 0
    /\ fpc = "off"
    /\ fin = NoFresnel
    /\ fout = NoFresnel
    \* the settings of the tracer play no part in the scheduler
    /\ m_nDepth = 0
    /\ m_glossy_reflection_sample = 0
    /\ m_intensity_threshold = 0
    /\ m_is_enable_reflection = TRUE
    /\ m_is_enable_refraction = TRUE
    /\ m_super_sampling = 0
    /\ pixpc = "idle"
    /\ col = Zero3
    /\ nsamples = 0
    /\ pixel = Zero3
    /\ pixelByte = Zero3
    /\ lastRaw = Zero3
    /\ lastTrace = Zero3
    /\ cs = <<>>
    /\ ncalls = 0

WorkerStep ==
    \E p \in 1..Len(passes) : \E k \in 1..Len(passes[p].workers) :
        \/ WorkerOuter(p, k)
        \/ WorkerInner(p, k)
        \/ TracePixelEnd(p, k)

UINext ==
    \/ \E s \in Scenes : LoadSceneOk(s)
    \/ LoadSceneParseError
    \/ LoadSceneNull
    \/ cb_stop
    \/ \E v \in 1..MaxSize : cb_sizeSlides(v)
    \/ \E v \in 1..MaxThread : cb_threadSlides(v)
    \/ RenderBegin
    \/ RenderLaunch
    \/ RenderJoin
    \/ WorkerStep

SpecUI == UIInit /\ [][UINext]_vars

\* Started threads keep running, and the main thread leaves Fl::check and
\* wait_for (RayTracer.h:284, :323).
FairSpecUI ==
    SpecUI /\ WF_vars(WorkerStep) /\ WF_vars(RenderLaunch) /\ WF_vars(RenderJoin)

\* The thread that runs tracePixel keeps running until tracePixel returns.
FairSpec == Spec /\ WF_vars(TraceNext)

\* ------------------------------------------------------------- properties
Frames == 1..Len(cs)

\* C1: the outermost traceRay runs at depth 0, every other traceRay runs at its
\* caller's depth + 1 and has a caller whose depth is below the configured
\* maximum, an activation at or beyond the maximum has made no child call and
\* its reflection term is zero and its result is its local term alone; so no
\* traceRay runs at a depth above the configured maximum.
C1_DepthBounded ==
    /\ cs # <<>> => cs[1].depth = 0
    /\ \A j \in Frames :
          /\ j > 1 => /\ cs[j].depth = cs[j - 1].depth + 1
                      /\ cs[j - 1].depth < m_nDepth
          /\ cs[j].depth <= m_nDepth
          /\ cs[j].depth >= m_nDepth =>
                /\ cs[j].nkids = 0
                /\ cs[j].reflection = Zero3
                /\ cs[j].pc = "return" => cs[j].ret = cs[j].intensity

\* A mirror is hit at the maximum depth, under a refracted and a reflected
\* ancestor, and traceRay returns without a child call.
C1_Witness ==
    /\ m_nDepth >= 2
    /\ Len(cs) = m_nDepth + 1
    /\ Top.pc = "return" /\ Top.shaded /\ Top.m = 1 /\ Top.nkids = 0
    /\ \E j \in Frames : cs[j].dir = "refract"
    /\ \E j \in Frames : cs[j].dir \in {"mirror", "cone"}

\* C2: the material stack of every traceRay is non-empty and ends with the air
\* material pushed by trace, and whenever the leaving test is true the stack
\* has at least two entries.
C2_StackNonEmpty ==
    \A j \in Frames :
        /\ Len(cs[j].material_stack) >= 1
        /\ cs[j].material_stack[Len(cs[j].material_stack)] = Air
        /\ cs[j].leaving => Len(cs[j].material_stack) >= 2

\* A ray that entered a medium leaves it (traceRefraction has popped the
\* stack) while another path of the same pixel is inside two media.
C2_Witness ==
    /\ Len(cs) = 3
    /\ cs[2].leaving
    /\ cs[2].pc = "refrWait"
    /\ Len(cs[2].material_stack) = 2
    /\ cs[3].material_stack = <<Air>>

\* C3: traceRay activations nest at most maximum depth + 1 deep, one trace
\* makes at most CallBound traceRay calls, and a pixel whose tracing has begun
\* is written.
C3_Terminates ==
    /\ [](/\ Len(cs) <= m_nDepth + 1
          /\ ncalls <= CallBound(0, m_nDepth, m_glossy_reflection_sample))
    /\ (pixpc = "sampling") ~> (pixpc = "written")

\* A hall of mirrors that the threshold does not prune: every activation down
\* to the maximum depth has hit the material with kr = (1,1,1).
C3_Witness ==
    /\ m_nDepth >= 2
    /\ m_intensity_threshold = 0
    /\ Len(cs) = m_nDepth + 1
    /\ \A j \in Frames : cs[j].shaded /\ cs[j].m = 1 /\ cs[j].thresh = <<Unit, Unit, Unit>>

\* C7: a traceRay whose weight is at or below the threshold on all three
\* channels has made no intersection query, no shade call and no child call,
\* and returns (0,0,0); a traceRay with a channel above the threshold that has
\* passed the test has made the intersection query.
C7_ThresholdCutoff ==
    \A j \in Frames :
        IF \A c \in Chan : cs[j].thresh[c] <= m_intensity_threshold
        THEN /\ ~cs[j].queried /\ ~cs[j].shaded /\ cs[j].nkids = 0
             /\ cs[j].pc \in {"enter", "return"}
             /\ cs[j].ret = Zero3
        ELSE cs[j].pc # "enter" => cs[j].queried

\* A reflected ray whose weight equals the threshold in one channel and is
\* below it in the others has returned without a query.
C7_Witness ==
    /\ Len(cs) >= 2
    /\ m_intensity_threshold > 0
    /\ Top.thresh[1] = m_intensity_threshold
    /\ Top.thresh[2] < m_intensity_threshold
    /\ Top.pc = "return"
    /\ ~Top.queried

\* C9: every colour trace returns has each channel in [0,1], and each of the
\* three values tracePixel stores is in 0..255 and is stored unchanged in its
\* byte.
C9_ColourInRange ==
    /\ \A c \in Chan : 0 <= lastTrace[c] /\ lastTrace[c] <= Unit
    /\ pixpc = "written" =>
          \A c \in Chan : /\ 0 <= pixel[c] /\ pixel[c] <= 255
                          /\ pixelByte[c] = pixel[c]

\* The last of the N x N samples of a supersampled pixel: traceRay returned
\* more than 1 in a channel and trace returned 1 there.
C9_Witness ==
    /\ m_super_sampling >= 2
    /\ nsamples = m_super_sampling * m_super_sampling
    /\ lastRaw[1] > Unit
    /\ lastTrace[1] = Unit

\* C10: a traceRay called by traceReflection has the caller's depth + 1, the
\* caller's weight times kr and the caller's stack; with sample count 0 it is
\* the only one and runs along the mirror direction, with sample count N > 0
\* it is one of at most N; once traceReflection has traced, it has made one
\* call and returned the child's result (count 0), or N calls and returned the
\* sum of the results divided by N.
C10_Reflection ==
    \A j \in Frames :
        /\ (j < Len(cs) /\ cs[j].pc = "reflWait") =>
              /\ cs[j + 1].depth = cs[j].depth + 1
              /\ cs[j + 1].thresh =
                    [c \in Chan |-> (cs[j].thresh[c] * kr(cs[j].m)[c]) \div Unit]
              /\ cs[j + 1].material_stack = cs[j].material_stack
              /\ IF m_glossy_reflection_sample = 0
                 THEN cs[j + 1].dir = "mirror" /\ cs[j].nkids = 1
                 ELSE /\ cs[j + 1].dir = "cone"
                      /\ cs[j].nkids = cs[j].i + 1
                      /\ cs[j].nkids <= m_glossy_reflection_sample
        /\ (cs[j].pc = "refraction" /\ cs[j].nkids > 0) =>
              IF m_glossy_reflection_sample = 0
              THEN cs[j].nkids = 1 /\ cs[j].reflection = cs[j].ksum
              ELSE /\ cs[j].nkids = m_glossy_reflection_sample
                   /\ \A c \in Chan :
                         cs[j].reflection[c] =
                             cs[j].ksum[c] \div m_glossy_reflection_sample

\* traceReflection has averaged two or more samples that were not all black.
C10_Witness ==
    /\ m_glossy_reflection_sample >= 2
    /\ \E j \in Frames :
          /\ cs[j].pc = "refraction"
          /\ cs[j].nkids = m_glossy_reflection_sample
          /\ cs[j].ksum[1] > 0
          /\ cs[j].reflection # cs[j].ksum

\* The workers that exist before and after a step
SameWorkers ==
    {<<p, k>> \in (1..MaxNest + 1) \X (1..MaxThread + 1) :
        /\ p <= Len(passes) /\ p <= Len(passes')
        /\ k <= Len(passes[p].workers) /\ k <= Len(passes'[p].workers)}

EntersTracePixel(p, k) ==
    /\ passes[p].workers[k].pc # "pixel"
    /\ passes'[p].workers[k].pc = "pixel"

\* C4: while done is set no RenderWorker enters tracePixel; and from any
\* moment at which done is set, done is reset or every worker has left its
\* loops, and done is reset or the innermost cb_render has returned.
C4_Cancellation ==
    /\ [][done => \A e \in SameWorkers : ~EntersTracePixel(e[1], e[2])]_vars
    /\ done ~> (~done \/ ~WorkerRunning)
    /\ \A n \in 1..MaxNest :
          (done /\ Len(passes) = n) ~> (~done \/ Len(passes) < n)

\* done was set while one worker was inside tracePixel: another worker has
\* left its loops with rows of its band untraced.
C4_Witness ==
    /\ done
    /\ \E p \in 1..Len(passes) :
          /\ passes[p].written # <<>>
          /\ \E k \in 1..Len(passes[p].workers) :
                /\ passes[p].workers[k].pc = "exit"
                /\ passes[p].workers[k].y < passes[p].workers[k].to_y
          /\ \E k \in 1..Len(passes[p].workers) : passes[p].workers[k].pc = "pixel"

\* The row ranges of the workers of P are contiguous from 0 to P.height,
\* and all but the last have height \div T rows.
BandsPartition(P) ==
    LET T == Len(P.workers)
    IN /\ P.workers[1].from_y = 0
       /\ P.workers[T].to_y = P.height
       /\ \A k \in 1..T : P.workers[k].from_y <= P.workers[k].to_y
       /\ \A k \in 1..(T - 1) :
             /\ P.workers[k].to_y = P.workers[k + 1].from_y
             /\ P.workers[k].to_y - P.workers[k].from_y = P.height \div T

\* How many times the workers of P wrote at offset off
Writes(P, off) ==
    LET Count[k \in 0..Len(P.workers)] ==
            IF k = 0 THEN 0
            ELSE Count[k - 1] + (IF <<k, off>> \in DOMAIN P.written
                                 THEN P.written[<<k, off>>] ELSE 0)
    IN Count[Len(P.workers)]

\* C5: the row ranges of the workers of every cb_render are contiguous,
\* disjoint and cover rows 0..height-1, no offset is written by two workers
\* of one cb_render, and when all workers of a cb_render have returned and
\* none left a loop because of done, every pixel of its width x height
\* image has been written exactly once.
C5_BandsWriteOnce ==
    \A p \in 1..Len(passes) :
        LET P == passes[p]
        IN P.workers # <<>> =>
              /\ BandsPartition(P)
              /\ \A e1, e2 \in DOMAIN P.written : e1[2] = e2[2] => e1[1] = e2[1]
              /\ (/\ \A k \in 1..Len(P.workers) : P.workers[k].pc = "exit"
                  /\ ~P.cancelled)
                 => \A i \in 0..(P.width - 1), j \in 0..(P.height - 1) :
                       Writes(P, (i + j * P.width) * 3) = 1

\* C6: a step in which loadScene replaces the scene and the buffer, or
\* obtains no scene, or in which traceSetup reallocates the buffer, is taken
\* only when no RenderWorker is running.
C6_LoadRenderSerialized ==
    [][((\E s \in Scenes : LoadSceneOk(s))
        \/ LoadSceneNull
        \/ (RenderBegin /\ <<buffer_width, buffer_height>>' # <<buffer_width, buffer_height>>))
       => ~WorkerRunning]_vars

\* C8: with no scene traceLines hands no pixel to tracePixel; a RenderWorker
\* that calls tracePixel with no scene does not get past its test and writes
\* nothing; and cb_render goes on to start workers only when sceneLoaded().
C8_NoSceneNoOp ==
    /\ [](/\ scene = NULL =>
                \A start, stop \in 0..(MaxSize + 1) : traceLines(start, stop) = {}
          /\ passes # <<>> => sceneLoaded)
    /\ [][/\ scene = NULL =>
                \A e \in SameWorkers :
                    /\ ~EntersTracePixel(e[1], e[2])
                    /\ (/\ passes[e[1]].workers[e[2]].pc = "inner"
                        /\ passes'[e[1]].workers[e[2]] # passes[e[1]].workers[e[2]])
                          => passes'[e[1]].written = passes[e[1]].written
          /\ Len(passes') > Len(passes) => sceneLoaded]_vars

\* After a load that obtained no scene, the workers of a cb_render have run
\* over the whole image, and nothing was written.
C8_Witness ==
    /\ scene = NULL
    /\ sceneLoaded
    /\ \E p \in 1..Len(passes) :
          /\ passes[p].workers # <<>>
          /\ passes[p].width * passes[p].height > 1
          /\ \A k \in 1..Len(passes[p].workers) : passes[p].workers[k].pc = "exit"
          /\ ~passes[p].cancelled
          /\ passes[p].written = <<>>

\* C16: whenever sceneLoaded() returns true the scene pointer is not null,
\* after any sequence of loads that succeed, throw ParseError or obtain no
\* scene.
C16_LoadedHasScene ==
    sceneLoaded => scene # NULL

\* C11: when a traceRefraction has entered material M (pushed it) and, with
\* nothing but reflections in between, a later traceRay of the same path hits
\* M and its traceRefraction goes on, the stack that traceRefraction hands to
\* its child equals the stack of the activation that entered M.
C11_PushPopRoundTrip ==
    \A j \in Frames : \A k \in Frames :
        (/\ j < k /\ k < Len(cs)
         /\ cs[j].pc = "refrWait"
         /\ cs[j].m # Head(cs[j].material_stack)
         /\ cs[k].pc = "refrWait"
         /\ cs[k].m = cs[j].m
         /\ \A i \in (j + 1)..k : cs[i].material_stack = cs[j + 1].material_stack)
        => cs[k + 1].material_stack = cs[j].material_stack

\* The camera ray entered water from air, the refracted ray hit the water
\* surface again and was refracted out.
C11_Witness ==
    /\ Len(cs) = 3
    /\ cs[1].pc = "refrWait" /\ cs[1].m = 4 /\ cs[1].material_stack = <<Air>>
    /\ cs[2].pc = "refrWait" /\ cs[2].m = 4 /\ cs[2].material_stack = <<4, Air>>
    /\ cs[3].material_stack = <<Air>>

\* The activations that exist before and after a step
SameFrames ==
    {j \in 1..(MaxDepth + 2) : j <= Len(cs) /\ j <= Len(cs')}

\* C13: a traceRefraction that has called traceRay used, when the hit
\* material is the stack front, ni = the hit material's index and nt = the
\* index of the second entry of the stack, and gave its child the stack
\* without its front; otherwise ni = the index of the stack front and nt =
\* the hit material's index, and the child's stack is the hit material put in
\* front of the caller's stack.  The stack of an activation never changes, and
\* a child of traceReflection has its caller's stack.
C13_RefractionFrame ==
    /\ [](\A j \in Frames :
            /\ (cs[j].pc = "refrWait" /\ j < Len(cs)) =>
                  LET f == cs[j]
                      S == f.material_stack
                  IN IF f.m = Head(S)
                     THEN /\ f.ni = index(f.m)
                          /\ Len(S) >= 2
                          /\ f.nt = index(S[2])
                          /\ cs[j + 1].material_stack = Tail(S)
                     ELSE /\ f.ni = index(Head(S))
                          /\ f.nt = index(f.m)
                          /\ cs[j + 1].material_stack = <<f.m>> \o S
            /\ (cs[j].pc = "reflWait" /\ j < Len(cs)) =>
                  cs[j + 1].material_stack = cs[j].material_stack)
    /\ [][\A j \in SameFrames : cs'[j].material_stack = cs[j].material_stack]_vars

\* Inside glass, after a reflection off the inner face, the ray leaves the
\* glass for the air: ni is the index of glass and nt that of air.
C13_Witness ==
    /\ Len(cs) = 3
    /\ cs[1].pc = "refrWait" /\ cs[1].ni = index(Air) /\ cs[1].nt = index(2)
    /\ cs[1].nkids = 2
    /\ cs[2].pc = "refrWait" /\ cs[2].m = 2
    /\ cs[2].ni = index(2) /\ cs[2].nt = index(Air)
    /\ cs[3].material_stack = <<Air>>

\* C12: whenever the ni that GetFresnelCoeff selected is greater than the nt
\* it selected and the discriminant 1 - (ni/nt)^2 * (1 - cos^2) is negative,
\* the coefficient it returned is exactly 1.
C12_FresnelTIRIsOne ==
    (/\ fpc \in {"coeff", "blended"}
     /\ fout.ni > fout.nt
     /\ fout.nt * fout.nt * CosSteps * CosSteps
          < fout.ni * fout.ni * (CosSteps * CosSteps - fin.c * fin.c))
    => (~fout.coeff.nan /\ fout.coeff.num = fout.coeff.den)

\* Inside glass a ray meets a surface of index 1 at an oblique angle (cosine above 0)
\* beyond the critical angle, and the coefficient is 1.
C12_Witness ==
    /\ fpc = "coeff"
    /\ fout.ni = index(2) /\ fout.nt = index(1)
    /\ fin.c > 0 /\ fin.c < CosSteps
    /\ fout.nt * fout.nt * CosSteps * CosSteps
          < fout.ni * fout.ni * (CosSteps * CosSteps - fin.c * fin.c)
    /\ fout.coeff = Fraction(1, 1)

\* C14: for one hit, the (ni, nt) of GetFresnelCoeff is the (ni, nt) of
\* traceRefraction, entering and leaving.
C14_SameIndexPair ==
    fpc \in {"coeff", "blended"} =>
        /\ fout.ni = Ni(fin)
        /\ \A outside \in Second(fin.material_stack) : fout.nt = Nt(fin, outside)

\* C15: the coefficient GetFresnelCoeff returned is a number in [0, 1], the
\* argument of the square root is not negative when the square root is taken,
\* and the blended reflection and refraction are numbers that do not exceed
\* the unblended ones in any channel.
C15_CoeffInUnitRange ==
    /\ fpc \in {"coeff", "blended"} =>
          /\ ~fout.coeff.nan
          /\ 0 <= fout.coeff.num /\ fout.coeff.num <= fout.coeff.den
          /\ (/\ ~SchlickDirect(fout.ni, fout.nt)
              /\ ~FresnelTIR(fout.ni, fout.nt, fin.c))
             => SqrtArgument(fout.ni, fout.nt) >= 0
    /\ fpc = "blended" =>
          /\ ~fout.reflection.nan /\ ~fout.refraction.nan
          /\ \A ch \in Chan :
                /\ fout.reflection.v[ch] <= fin.reflection[ch]
                /\ fout.refraction.v[ch] <= fin.refraction[ch]

====
